---- MODULE Spec2Model ----
(***************************************************************************)
(* Model of the experiment-evaluation helpers: the DatasetEvaluation       *)
(* session object (src/evaluation.py) and the condition filter it shares   *)
(* with DatasetExploration (src/exploration.py).                           *)
(*                                                                         *)
(* Numbers.  A p-value is a fixed-point integer counting units of 1e-7,    *)
(* so 0.05 is 500000 and 0.0500001 is 500001.  A number is the record      *)
(* [t |-> "float", "float64" or "int", v |-> units], a Python float, a     *)
(* numpy.float64 or a Python int; a Python string built by the annotator   *)
(* is the record [t |-> "str", ...] described at CheckP.                   *)
(***************************************************************************)
EXTENDS Integers, Sequences, FiniteSets, TLC

VARIABLES
    df,           \* DatasetEvaluation.df: the held dataset, a sequence of rows
    alpha,        \* DatasetEvaluation.alpha
    order_table,  \* DatasetEvaluation.order_table: column -> saved order
    call,         \* the test call that has run and not yet returned, or NoCall
    pin,          \* input of the numeric helper under evaluation
    pout,         \* its result, or Pending
    pout2,        \* the annotator applied to its own result, or Pending
    fin,          \* input of the condition filter under evaluation
    fout          \* its result, or Pending

vars == <<df, alpha, order_table, call, pin, pout, pout2, fin, fout>>

sessionVars == <<df, alpha, order_table, call>>
numericVars == <<pin, pout, pout2>>
filterVars == <<fin, fout>>

(***************************************************************************)
(* Fixed-point numbers                                                     *)
(***************************************************************************)

\* the literal 1 of min(p*num, 1), in units of 1e-7
One == 10000000

\* the literals 0.001, 0.01 and 0.05 of __check_p, in units of 1e-7
PThreeStars == 10000
PTwoStars == 100000
POneStar == 500000

\* the default alpha 0.05 of __init__, in units of 1e-7
DefaultAlpha == 500000

\* A float is a double: v is its value to the nearest 1e-7.  The double is the
\* one nearest to base * 1e-7, multiplied by each of factors in turn (every
\* product rounded to a double), which is what decides a rounding tie.
\* t tells the type that holds the double: "float" is Python's float,
\* "float64" is numpy.float64, as the library routines report their numbers.
PyFloat(v) == [t |-> "float", v |-> v, base |-> v, factors |-> <<>>]
NpFloat(v) == [t |-> "float64", v |-> v, base |-> v, factors |-> <<>>]

\* float(x) of a numpy.float64 x
FloatOf(x) == [x EXCEPT !.t = "float"]

IsFloat(p) == p.t \in {"float", "float64"}
PyInt(v) == [t |-> "int", v |-> v]

Abs(v) == IF v < 0 THEN -v ELSE v

Pending == [t |-> "pending"]

\* 10^n
RECURSIVE Pow10(_)
Pow10(n) == IF n = 0 THEN 1 ELSE 10 * Pow10(n - 1)

(***************************************************************************)
(* Doubles.  A non-negative double is kept as the binary digits of an      *)
(* integer, most significant first, and the number s of those digits that  *)
(* stand after the binary point; it has at most 53 significant digits.     *)
(***************************************************************************)

\* F of the value of e: e is evaluated once, however often F uses it
With(e, F(_)) == CHOOSE r \in {F(x) : x \in {e}} : TRUE

\* the binary digits of a natural number
RECURSIVE IntBits(_)
IntBits(i) == IF i = 0 THEN <<>> ELSE Append(IntBits(i \div 2), i % 2)

\* Binary digits are produced and multiplied seven at a time, as one digit
\* to the base 128.  Bit(x, pos) is binary digit pos (0 the first) of the
\* seven of x.
Bit(x, pos) == (x \div (2 ^ (6 - pos))) % 2

\* the binary digits of a row of digits to the base 128
BitsOfDigits(digits) ==
    With(digits, LAMBDA ds :
        [i \in 1..(7 * Len(ds)) |-> Bit(ds[((i - 1) \div 7) + 1], (i - 1) % 7)])

\* the first k digits to the base 128 of r * 1e-7 after the point (r < One),
\* appended to acc, and the remainder they leave
RECURSIVE DivDigits(_, _, _)
DivDigits(r, k, acc) ==
    IF k = 0 THEN [digits |-> acc, rem |-> r]
    ELSE With(<<128 * r, k - 1, acc>>, LAMBDA x :
             DivDigits(x[1] % One, x[2], Append(x[3], x[1] \div One)))

\* the first n binary digits of r * 1e-7 after the point (r < One), and
\* whether a non-zero part is left after them
DivBits(r, n) ==
    With(n, LAMBDA m :
    With(DivDigits(r, (m + 6) \div 7, <<>>), LAMBDA d :
    With(BitsOfDigits(d.digits), LAMBDA all :
        [bits |-> SubSeq(all, 1, m),
         sticky |-> d.rem > 0 \/ \E i \in (m + 1)..Len(all) : all[i] = 1])))

\* the binary digits after the point of r * 1e-7 that precede its first 1
RECURSIVE Zeros(_)
Zeros(r) == With(2 * r, LAMBDA x : IF x >= One THEN 0 ELSE 1 + Zeros(x))

\* b without its leading zeros
Strip(bits) ==
    With(bits, LAMBDA b :
        IF \A i \in 1..Len(b) : b[i] = 0 THEN <<>>
        ELSE SubSeq(b, CHOOSE i \in 1..Len(b) :
                           b[i] = 1 /\ \A j \in 1..(i - 1) : b[j] = 0,
                    Len(b)))

\* b + 1
Incr(bits) ==
    With(bits, LAMBDA b :
        IF \A i \in 1..Len(b) : b[i] = 1
        THEN <<1>> \o [i \in 1..Len(b) |-> 0]
        ELSE With(CHOOSE i \in 1..Len(b) :
                      b[i] = 0 /\ \A j \in (i + 1)..Len(b) : b[j] = 1,
                  LAMBDA k :
                      [i \in 1..Len(b) |->
                          IF i < k THEN b[i] ELSE IF i = k THEN 1 ELSE 0]))

\* binary digit i of b when b is padded in front with pad zeros
PaddedBit(b, pad, i) == IF i <= pad THEN 0 ELSE b[i - pad]

\* the digits to the base 128 of the number of binary digits b
DigitsOfBits(bits) ==
    With(bits, LAMBDA b :
    With((Len(b) + 6) \div 7, LAMBDA k :
    With(7 * k - Len(b), LAMBDA pad :
        [j \in 1..k |->
            64 * PaddedBit(b, pad, 7 * j - 6) + 32 * PaddedBit(b, pad, 7 * j - 5)
                + 16 * PaddedBit(b, pad, 7 * j - 4) + 8 * PaddedBit(b, pad, 7 * j - 3)
                + 4 * PaddedBit(b, pad, 7 * j - 2) + 2 * PaddedBit(b, pad, 7 * j - 1)
                + PaddedBit(b, pad, 7 * j)])))

\* digits[1..i] * num + carry, followed by acc
RECURSIVE MulDigits(_, _, _, _, _)
MulDigits(digits, i, num, carry, acc) ==
    IF i = 0 THEN IntBits(carry) \o BitsOfDigits(acc)
    ELSE With(<<digits[i] * num + carry, i - 1, acc>>, LAMBDA x :
             MulDigits(digits, x[2], num, x[1] \div 128, <<x[1] % 128>> \o x[3]))

\* b * num
MulBits(b, num) ==
    With(<<DigitsOfBits(b), num>>, LAMBDA x :
        MulDigits(x[1], Len(x[1]), x[2], 0, <<>>))

\* IEEE round-to-nearest-even to 53 significant digits; sticky says that the
\* exact value has a non-zero part below the last digit of bits
Round53(bits, s, sticky) ==
    With(Strip(bits), LAMBDA b :
        IF Len(b) <= 53 THEN [bits |-> b, s |-> s]
        ELSE [bits |-> IF b[54] = 1 /\ (sticky \/ b[53] = 1
                                          \/ \E i \in 55..Len(b) : b[i] = 1)
                       THEN Incr(SubSeq(b, 1, 53))
                       ELSE SubSeq(b, 1, 53),
              s |-> s - (Len(b) - 53)])

\* the number of binary digits after the point that the double nearest to
\* v * 1e-7 is rounded from, when ib are the digits before the point
DigitsAfterPoint(ib, r) ==
    IF ib # <<>> THEN 54 - Len(ib)
    ELSE IF r > 0 THEN Zeros(r) + 54
    ELSE 0

\* the double nearest to v * 1e-7, v >= 0
DoubleOf(v) ==
    With(<<IntBits(v \div One), v % One>>, LAMBDA x :
    With(DigitsAfterPoint(x[1], x[2]), LAMBDA n :
    With(DivBits(x[2], n), LAMBDA d :
        Round53(x[1] \o d.bits, n, d.sticky))))

\* d * num for an int num >= 0, as the float multiplication rounds it
DoubleTimes(d, num) == With(d, LAMBDA x : Round53(MulBits(x.bits, num), x.s, FALSE))

RECURSIVE DoubleTimesAll(_, _)
DoubleTimesAll(d, factors) ==
    IF factors = <<>> THEN d
    ELSE With(<<DoubleTimes(d, Head(factors)), Tail(factors)>>, LAMBDA x :
             DoubleTimesAll(x[1], x[2]))

\* -1, 0, 1 as the natural number of digits x is below, equal to, above y
CmpBits(x, y) ==
    With(<<Strip(x), Strip(y)>>, LAMBDA s :
        IF Len(s[1]) < Len(s[2]) THEN -1
        ELSE IF Len(s[1]) > Len(s[2]) THEN 1
        ELSE IF s[1] = s[2] THEN 0
        ELSE With(CHOOSE k \in 1..Len(s[1]) :
                      s[1][k] # s[2][k] /\ \A j \in 1..(k - 1) : s[1][j] = s[2][j],
                  LAMBDA i : IF s[1][i] > s[2][i] THEN 1 ELSE -1))

\* -1, 0, 1 as the double d is below, equal to, above the decimal T * 1e-7
CmpDecimal(d, T) ==
    With(d, LAMBDA x :
    With(DivBits(T % One, x.s), LAMBDA q :
    With(CmpBits(x.bits, IntBits(T \div One) \o q.bits), LAMBDA c :
        IF c # 0 THEN c
        ELSE IF q.sticky THEN -1
        ELSE 0)))

\* the natural number of the binary digits b
RECURSIVE BitsValue(_)
BitsValue(b) ==
    IF b = <<>> THEN 0
    ELSE With(b, LAMBDA x : 2 * BitsValue(SubSeq(x, 1, Len(x) - 1)) + x[Len(x)])

\* rint of a non-negative double below 2^30: the nearest integer, the even
\* one when the double is half way between two
Rint(d) ==
    With(<<d.bits, Len(d.bits) - d.s>>, LAMBDA x :
        IF x[1] = <<>> \/ x[2] < 0 THEN 0
        ELSE With(BitsValue(SubSeq(x[1], 1, x[2])), LAMBDA ip :
                 IF d.s = 0 THEN ip
                 ELSE IF x[1][x[2] + 1] = 1
                         /\ (ip % 2 = 1
                              \/ \E i \in (x[2] + 2)..Len(x[1]) : x[1][i] = 1)
                      THEN ip + 1
                      ELSE ip))

\* The products that round(p, ndigits) works on.  Python's round of a float
\* takes the double as it is; numpy's round of a numpy.float64 multiplies it
\* by 10^ndigits first, in double arithmetic.
RoundFactors(p, ndigits) ==
    IF p.t = "float64" THEN Append(p.factors, Pow10(ndigits)) ELSE p.factors

\* Whether round(p, ndigits) goes to the upper of the two multiples of
\* 10^(-ndigits) that the decimal |p.v| * 1e-7 lies half way between, q
\* being the lower one in units of 10^(-ndigits).
\*   float: round is correctly rounded, so the double decides by lying above
\*   or below the decimal; a double that is the decimal goes to the even one.
\*   numpy.float64: round is rint(p * 10^ndigits) / 10^ndigits.
TieRoundsUp(p, ndigits, q) ==
    With(DoubleTimesAll(DoubleOf(Abs(p.base)), RoundFactors(p, ndigits)), LAMBDA d :
        IF p.t = "float64" THEN Rint(d) > q
        ELSE With(CmpDecimal(d, Abs(p.v)), LAMBDA e :
                 e > 0 \/ (e = 0 /\ q % 2 = 1)))

\* Whether round goes to the multiple of unit above q * unit, r being what
\* the decimal has beyond q * unit.  The double, and its product with
\* 10^ndigits, are within 1e-10 of the decimal's, so the rounding can leave
\* the side the decimal is on only when the decimal lies half way.
RoundsUp(p, ndigits, unit, q, r) ==
    IF 2 * r # unit THEN 2 * r > unit ELSE TieRoundsUp(p, ndigits, q)

\* round(p, ndigits) of a float or a numpy.float64, in units of 1e-7: the
\* multiple of 10^(7-ndigits) that the type's round arrives at.
RoundFloat(p, ndigits) ==
    With(<<Pow10(7 - ndigits), Abs(p.v)>>, LAMBDA x :
    With(<<x[2] \div x[1],
           RoundsUp(p, ndigits, x[1], x[2] \div x[1], x[2] % x[1])>>, LAMBDA y :
    With(IF y[2] THEN (y[1] + 1) * x[1] ELSE y[1] * x[1], LAMBDA m :
        IF p.v < 0 THEN -m ELSE m)))

\* round(x, ndigits) of the Python float nearest to v * 1e-7
Round(v, ndigits) == RoundFloat(PyFloat(v), ndigits)

\* round(x, ndigits) of the numpy.float64 nearest to v * 1e-7
RoundNumpy(v, ndigits) == RoundFloat(NpFloat(v), ndigits)

(***************************************************************************)
(* __apply_bonferroni and __check_p                                        *)
(***************************************************************************)

\* A slip that forgets the clamp.
ApplyBonferroniUnclamped(p, num) ==
    [t |-> p.t, v |-> p.v * num, base |-> p.base,
     factors |-> Append(p.factors, num)]

\* min(p*num, 1): Python's min returns its first argument unless a later one
\* is smaller, so the clamped result is the int 1 and any other the float p*num.
ApplyBonferroni(p, num) ==
    IF One < p.v * num THEN PyInt(One)
    ELSE [t |-> p.t, v |-> p.v * num, base |-> p.base,
          factors |-> Append(p.factors, num)]

\* str(round(p, ndigits)) + marker: the text is decided by the type of the
\* number, its rounded value, the sign of a zero (a negative float that
\* rounds to zero is written -0.0) and the marker, which are kept as fields.
\* round of an int with ndigits > 0 is the int; round of a float is Python's
\* and round of a numpy.float64 is numpy's.
Annotated(p, ndigits, stars) ==
    LET v == IF p.t = "int" THEN p.v ELSE RoundFloat(p, ndigits)
    IN  [t |-> "str", of |-> p.t, v |-> v,
         negzero |-> (IsFloat(p) /\ p.v < 0 /\ v = 0),
         stars |-> stars]

\* A slip that compares with < instead of <=.
CheckPStrict(p) ==
    IF p.t = "str" THEN p
    ELSE IF Abs(p.v) < PThreeStars THEN Annotated(p, 5, 3)
    ELSE IF Abs(p.v) < PTwoStars THEN Annotated(p, 3, 2)
    ELSE IF Abs(p.v) < POneStar THEN Annotated(p, 3, 1)
    ELSE Annotated(p, 5, 0)

\* A slip that forgets abs().
CheckPSigned(p) ==
    IF p.t = "str" THEN p
    ELSE IF p.v <= PThreeStars THEN Annotated(p, 5, 3)
    ELSE IF p.v <= PTwoStars THEN Annotated(p, 3, 2)
    ELSE IF p.v <= POneStar THEN Annotated(p, 3, 1)
    ELSE Annotated(p, 5, 0)

\* A slip that annotates text again instead of passing it through.
CheckPNoPassThrough(p) ==
    LET n == IF p.t # "str" THEN p
             ELSE IF p.of = "int" THEN PyInt(p.v)
             ELSE [PyFloat(p.v) EXCEPT !.t = p.of]
        extra == IF p.t = "str" THEN p.stars ELSE 0
    IN  IF Abs(n.v) <= PThreeStars THEN Annotated(n, 5, 3 + extra)
        ELSE IF Abs(n.v) <= PTwoStars THEN Annotated(n, 3, 2 + extra)
        ELSE IF Abs(n.v) <= POneStar THEN Annotated(n, 3, 1 + extra)
        ELSE Annotated(n, 5, 0 + extra)

CheckP(p) ==
    IF p.t = "str" THEN p
    ELSE IF Abs(p.v) <= PThreeStars THEN Annotated(p, 5, 3)
    ELSE IF Abs(p.v) <= PTwoStars THEN Annotated(p, 3, 2)
    ELSE IF Abs(p.v) <= POneStar THEN Annotated(p, 3, 1)
    ELSE Annotated(p, 5, 0)

(***************************************************************************)
(* Conditions and __get_condition                                          *)
(*                                                                         *)
(* A condition is None, False, a (column, value) tuple or a list of        *)
(* conditions; the tag says which.                                         *)
(***************************************************************************)

NoneCond == [tag |-> "None"]
FalseCond == [tag |-> "False"]
TupleCond(column, value) == [tag |-> "tuple", col |-> column, val |-> value]
ListCond(items) == [tag |-> "list", items |-> items]

\* Python truth of a condition: None, False and the empty list are false.
Truthy(condition) ==
    CASE condition.tag = "None" -> FALSE
      [] condition.tag = "False" -> FALSE
      [] condition.tag = "list" -> condition.items # <<>>
      [] OTHER -> TRUE

\* data[data[column] == value]
SelectRows(data, column, value) ==
    SelectSeq(data, LAMBDA row : row[column] = value)

RECURSIVE GetCondition(_, _)
RECURSIVE ExplGetCondition(_, _)

\* A slip that filters the original data with every condition of a list
\* instead of narrowing it.
GetConditionNoNarrowing(data, condition) ==
    IF ~Truthy(condition) THEN data
    ELSE IF condition.tag = "list" THEN
        LET loop[i \in 0..Len(condition.items)] ==
                IF i = 0 THEN data
                ELSE GetCondition(data, condition.items[i])
        IN  loop[Len(condition.items)]
    ELSE SelectRows(data, condition.col, condition.val)

\* A slip that treats the falsy sentinels as "nothing matches".
GetConditionDropsAll(data, condition) ==
    IF ~Truthy(condition) THEN <<>>
    ELSE IF condition.tag = "list" THEN
        LET loop[i \in 0..Len(condition.items)] ==
                IF i = 0 THEN data
                ELSE GetCondition(loop[i - 1], condition.items[i])
        IN  loop[Len(condition.items)]
    ELSE SelectRows(data, condition.col, condition.val)

\* DatasetEvaluation.__get_condition
GetCondition(data, condition) ==
    IF ~Truthy(condition) THEN data
    ELSE IF condition.tag = "list" THEN
        LET loop[i \in 0..Len(condition.items)] ==
                IF i = 0 THEN data
                ELSE GetCondition(loop[i - 1], condition.items[i])
        IN  loop[Len(condition.items)]
    ELSE SelectRows(data, condition.col, condition.val)

\* DatasetExploration.__get_condition
ExplGetCondition(data, condition) ==
    IF ~Truthy(condition) THEN data
    ELSE IF condition.tag = "list" THEN
        LET loop[i \in 0..Len(condition.items)] ==
                IF i = 0 THEN data
                ELSE ExplGetCondition(loop[i - 1], condition.items[i])
        IN  loop[Len(condition.items)]
    ELSE SelectRows(data, condition.col, condition.val)

(***************************************************************************)
(* The dataset of a session                                                *)
(*                                                                         *)
(* A repeated-measures table: every participant has one row per task and   *)
(* size.  Categorical cells are strings, score and time are integers.      *)
(***************************************************************************)

\* participants of the experiment
NumParticipants == 2

Sizes == <<"S", "M", "L">>
Tasks == <<"t1", "t2">>

\* a group value that no row carries
Foreign == "XL"

\* Python's None where a group value is expected
None == "<None>"

ParticipantName(i) == IF i = 1 THEN "p1" ELSE IF i = 2 THEN "p2" ELSE "p3"

SizeBase(s) == IF s = "S" THEN 1 ELSE IF s = "M" THEN 2 ELSE 5

\* The rows of the experiment, participant by participant, task by task, the
\* sizes in the order sizeOrder.
BuildData(sizeOrder) ==
    LET ns == Len(sizeOrder)
        nt == Len(Tasks)
    IN  [i \in 1..(NumParticipants * nt * ns) |->
            LET pi == ((i - 1) \div (nt * ns)) + 1
                ti == (((i - 1) \div ns) % nt) + 1
                si == ((i - 1) % ns) + 1
            IN  [Participant |-> ParticipantName(pi),
                 task |-> Tasks[ti],
                 size |-> sizeOrder[si],
                 score |-> SizeBase(sizeOrder[si]) + pi - 1,
                 time |-> 10 * ti + pi]]

InitialDatasets == {BuildData(<<"L", "S", "M">>), BuildData(<<"S", "M", "L">>)}

InSeq(x, seq) == \E i \in 1..Len(seq) : seq[i] = x

\* data[column] as a sequence of cells
Column(data, column) == [i \in 1..Len(data) |-> data[i][column]]

(***************************************************************************)
(* MANIPULATION and CONFIG                                                 *)
(***************************************************************************)

NoCall == [op |-> "none"]

\* self.df[self.df[column] != value]
ExcludeRows(data, condition) ==
    SelectSeq(data, LAMBDA row : row[condition[1]] # condition[2])

\* self.df[columns].mean(axis=1), one float per row
RowMean(row, columns) ==
    LET sum[i \in 0..Len(columns)] ==
            IF i = 0 THEN 0 ELSE sum[i - 1] + row[columns[i]]
    IN  PyFloat((sum[Len(columns)] * One) \div Len(columns))

\* self.df[name] = ...
WithColumn(data, columns, name) ==
    [i \in 1..Len(data) |->
        [c \in (DOMAIN data[i]) \cup {name} |->
            IF c = name THEN RowMean(data[i], columns) ELSE data[i][c]]]

ExcludeConditions ==
    {<<"size", "L">>, <<"size", "S">>, <<"size", "M">>, <<"task", "t2">>}

\* the orders a caller saves: a permutation, a sub-list, a list with a value
\* no row carries, a list naming a value twice, and orders of the task column
SavedOrders ==
    {<<"size", <<"M", "L", "S">> >>,
     <<"size", <<"M", "S">> >>,
     <<"size", <<"S", Foreign, "M">> >>,
     <<"size", <<"S", "S", "M">> >>,
     <<"task", <<"t2", "t1">> >>}

exclude(condition) ==
    /\ df' = ExcludeRows(df, condition)
    /\ UNCHANGED <<alpha, order_table, call>>

add_mean(columns, name) ==
    /\ df' = WithColumn(df, columns, name)
    /\ UNCHANGED <<alpha, order_table, call>>

save_order(column, order) ==
    /\ order_table' =
          [c \in (DOMAIN order_table) \cup {column} |->
              IF c = column THEN order ELSE order_table[c]]
    /\ UNCHANGED <<df, alpha, call>>

set_alpha(a) ==
    /\ alpha' = a
    /\ UNCHANGED <<df, order_table, call>>

(***************************************************************************)
(* HELPER: group enumeration                                               *)
(***************************************************************************)

\* pd.unique: the distinct cells in the order of their first occurrence
PdUnique(cells) ==
    LET seen[i \in 0..Len(cells)] ==
            IF i = 0 THEN <<>>
            ELSE LET before == seen[i - 1]
                 IN  IF InSeq(cells[i], before) THEN before
                     ELSE Append(before, cells[i])
    IN  seen[Len(cells)]

\* __possible_values, which reads the held dataset
PossibleValues(held, column) == PdUnique(Column(held, column))

\* __ordered_values returns the saved list itself, not a copy.  A slip that
\* moves the baseline to the end of that list in place
\* (groups.remove(baseline); groups.append(baseline)).
SavedListAfterInPlace(saved, baseline) ==
    IF baseline # None
    THEN Append(SelectSeq(saved, LAMBDA x : x # baseline), baseline)
    ELSE saved

\* The list __ordered_values returned, after "baseline gets special
\* treatment": groups is rebound to a new list built by the comprehension and
\* the append goes to that new list, so the returned list is as it was.
SavedListAfter(saved, baseline) == saved

\* self.order_table after a comparison call on group_col
TableAfter(table, group_col, baseline) ==
    IF group_col \in DOMAIN table
    THEN [table EXCEPT ![group_col] = SavedListAfter(table[group_col], baseline)]
    ELSE table

\* A slip that ignores the saved order.
OrderedValuesIgnoringTable(table, held, column) == PossibleValues(held, column)

\* __ordered_values
OrderedValues(table, held, column) ==
    IF column \in DOMAIN table THEN table[column]
    ELSE PossibleValues(held, column)

(***************************************************************************)
(* POST-HOC TESTS: wilcoxon_test                                           *)
(***************************************************************************)

\* A slip that appends the baseline without removing it from the list first.
BaselineLastKeepingFirst(groups, baseline) ==
    IF baseline # None THEN Append(groups, baseline) ELSE groups

\* A slip that appends the baseline only when the list held it.
BaselineLastWhenPresent(groups, baseline) ==
    IF baseline # None /\ InSeq(baseline, groups)
    THEN Append(SelectSeq(groups, LAMBDA x : x # baseline), baseline)
    ELSE groups

\* "baseline gets special treatment": the list without the baseline, then the
\* baseline; a new list, the enumerated one is left as it was.
BaselineLast(groups, baseline) ==
    IF baseline # None
    THEN Append(SelectSeq(groups, LAMBDA x : x # baseline), baseline)
    ELSE groups

\* A slip that forgets the check for the reversed pair.
ToCompareBothWays(groups) ==
    LET n == Len(groups)
        step[k \in 0..(n * n)] ==
            IF k = 0 THEN <<>>
            ELSE LET g1 == groups[((k - 1) \div n) + 1]
                     g2 == groups[((k - 1) % n) + 1]
                     found == step[k - 1]
                 IN  IF g1 # g2 THEN Append(found, <<g1, g2>>)
                     ELSE found
    IN  step[n * n]

\* "collect all pairs to compare": g1 outer, g2 inner, both over groups
ToCompare(groups) ==
    LET n == Len(groups)
        step[k \in 0..(n * n)] ==
            IF k = 0 THEN <<>>
            ELSE LET g1 == groups[((k - 1) \div n) + 1]
                     g2 == groups[((k - 1) % n) + 1]
                     found == step[k - 1]
                 IN  IF g1 # g2 /\ ~InSeq(<<g2, g1>>, found)
                     THEN Append(found, <<g1, g2>>)
                     ELSE found
    IN  step[n * n]

\* The pairs the "only compare to baseline" loop does not skip.
ComparedToBaseline(to_compare, baseline) ==
    SelectSeq(to_compare, LAMBDA pr : pr[2] = baseline)

\* df[df[group_col]==g][value_col]
Series(data, group_col, g, value_col) ==
    Column(SelectRows(data, group_col, g), value_col)

\* pingouin.wilcoxon is a paired test: it raises on an empty series and on
\* series of different lengths.
WilcoxonFails(s1, s2) == Len(s1) = 0 \/ Len(s2) = 0 \/ Len(s1) # Len(s2)

\* The raw p-values the paired test reports in one call, one per tested pair.
PSample == <<4000, 80000, 300000, 4000000>>

RawP(k, i) == NpFloat(PSample[((i - 1 + k) % Len(PSample)) + 1])

\* One statistic of the test on (s1, s2), unrounded or rounded to 5 decimals.
Stat(name, s1, s2) == [stat |-> name, x |-> s1, y |-> s2, ndigits |-> None]
Rounded5(st) == [st EXCEPT !.ndigits = "5"]

NoTable == [layout |-> "none"]

\* the value of a call of a method that ends without a return statement
PyNone == [layout |-> "None"]

\* "collect group values to compare" and the special treatment of the baseline
WilcoxonGroups(held, table, group_col, baseline) ==
    LET enumerated == OrderedValues(table, held, group_col)
    IN  [enumerated |-> enumerated,
         groups |-> BaselineLast(enumerated, baseline)]

\* A slip that corrects for all collected pairs in the baseline loop too.
WilcoxonPairsCountingAll(groups, baseline) ==
    LET to_compare == ToCompare(groups)
    IN  IF baseline = None
        THEN [to_compare |-> to_compare,
              pairs |-> to_compare,
              num |-> Len(to_compare)]
        ELSE [to_compare |-> to_compare,
              pairs |-> ComparedToBaseline(to_compare, baseline),
              num |-> Len(to_compare)]

\* The pairs each of the two result loops runs the test on, and the number it
\* hands to __apply_bonferroni.
WilcoxonPairs(groups, baseline) ==
    LET to_compare == ToCompare(groups)
    IN  IF baseline = None
        THEN [to_compare |-> to_compare,
              pairs |-> to_compare,
              num |-> Len(to_compare)]
        ELSE [to_compare |-> to_compare,
              pairs |-> ComparedToBaseline(to_compare, baseline),
              num |-> Len(groups) - 1]

\* "perform wilcoxon", "read results": what one pass of the loop appends
PairOutcome(data, value_col, group_col, pair, p, num) ==
    LET s1 == Series(data, group_col, pair[1], value_col)
        s2 == Series(data, group_col, pair[2], value_col)
    IN  [A |-> pair[1],
         B |-> pair[2],
         W |-> Stat("W-val", s1, s2),
         p |-> CheckP(p),
         bonf |-> CheckP(ApplyBonferroni(p, num)),
         RBC |-> Rounded5(Stat("RBC", s1, s2)),
         CLES |-> Rounded5(Stat("CLES", s1, s2))]

PairFails(data, value_col, group_col, pair) ==
    WilcoxonFails(Series(data, group_col, pair[1], value_col),
                  Series(data, group_col, pair[2], value_col))

\* The result loop: it ends at the first pair the paired test raises on.
WilcoxonLoop(data, value_col, group_col, pairs, num, k) ==
    LET failing == {i \in 1..Len(pairs) :
                        PairFails(data, value_col, group_col, pairs[i])}
        firstFail == IF failing = {} THEN 0
                     ELSE CHOOSE i \in failing : \A j \in failing : i <= j
    IN  IF firstFail = 0
        THEN [raised |-> FALSE,
              invoked |-> pairs,
              outcome |-> [i \in 1..Len(pairs) |->
                  PairOutcome(data, value_col, group_col, pairs[i], RawP(k, i), num)]]
        ELSE [raised |-> TRUE,
              invoked |-> SubSeq(pairs, 1, firstFail),
              outcome |-> [i \in 1..(firstFail - 1) |->
                  PairOutcome(data, value_col, group_col, pairs[i], RawP(k, i), num)]]

\* A slip that appends the effect size before the statistic.
ResultsOfEffectFirst(outcome, g) ==
    LET acc[i \in 0..Len(outcome)] ==
            IF i = 0 THEN <<>>
            ELSE IF outcome[i].A = g
            THEN acc[i - 1] \o <<outcome[i].p, outcome[i].bonf,
                                 outcome[i].RBC, outcome[i].W>>
            ELSE acc[i - 1]
    IN  acc[Len(outcome)]

\* results[g] of the baseline layout: four entries for every tested pair of g
ResultsOf(outcome, g) ==
    LET acc[i \in 0..Len(outcome)] ==
            IF i = 0 THEN <<>>
            ELSE IF outcome[i].A = g
            THEN acc[i - 1] \o <<outcome[i].p, outcome[i].bonf,
                                 outcome[i].W, outcome[i].RBC>>
            ELSE acc[i - 1]
    IN  acc[Len(outcome)]

\* pd.DataFrame(results): one row per tested pair
PairsTable(outcome) == [layout |-> "pairs", rows |-> outcome]

\* pd.DataFrame(results, index=['p','bonf','W','r'], columns=groups[:-1]); it
\* raises when the list of a column is not as long as the index.
MetricsTable(outcome, groups) ==
    LET columns == SubSeq(groups, 1, Len(groups) - 1)
        data == [j \in 1..Len(columns) |-> ResultsOf(outcome, columns[j])]
    IN  IF \E j \in 1..Len(columns) : Len(data[j]) # 4
        THEN NoTable
        ELSE [layout |-> "metrics",
              index |-> <<"p", "bonf", "W", "r">>,
              columns |-> columns,
              data |-> data]

\* A slip that catches the failure and builds the table of the pairs tested
\* before it.
ResultTablePartial(loop, groups, baseline) ==
    IF baseline = None THEN PairsTable(loop.outcome)
    ELSE MetricsTable(loop.outcome, groups)

\* df_res, or NoTable when the call has raised before it was built
ResultTable(loop, groups, baseline) ==
    IF loop.raised THEN NoTable
    ELSE IF baseline = None THEN PairsTable(loop.outcome)
    ELSE MetricsTable(loop.outcome, groups)

\* The end of wilcoxon_test: display, to_csv, and the value the call evaluates
\* to (the method has no return statement).
WilcoxonReport(value_col, group_col, condition, baseline, display_result, file, g, c, loop, df_res) ==
    [op |-> "wilcoxon_test",
     value_col |-> value_col,
     group_col |-> group_col,
     condition |-> condition,
     baseline |-> baseline,
     enumerated |-> g.enumerated,
     groups |-> g.groups,
     to_compare |-> c.to_compare,
     pairs |-> c.pairs,
     invoked |-> loop.invoked,
     multipliers |-> [i \in 1..Len(loop.outcome) |-> c.num],
     status |-> IF loop.raised THEN "test raised"
                ELSE IF df_res = NoTable THEN "table raised"
                ELSE "ok",
     table |-> df_res,
     displayed |-> IF display_result THEN df_res ELSE NoTable,
     csv |-> IF file # None THEN df_res ELSE NoTable,
     returned |-> PyNone]

WilcoxonFrom(held, value_col, group_col, condition, baseline, display_result, file, k, g, c) ==
    LET loop == WilcoxonLoop(GetCondition(held, condition), value_col, group_col,
                             c.pairs, c.num, k)
    IN  WilcoxonReport(value_col, group_col, condition, baseline, display_result,
                       file, g, c, loop, ResultTable(loop, g.groups, baseline))

\* wilcoxon_test from its first statement to its last, on the session
\* (held, table); k picks the raw p-values the paired test reports.
WilcoxonTest(held, table, value_col, group_col, condition, baseline, display_result, file, k) ==
    LET g == WilcoxonGroups(held, table, group_col, baseline)
    IN  WilcoxonFrom(held, value_col, group_col, condition, baseline,
                     display_result, file, k, g, WilcoxonPairs(g.groups, baseline))

(***************************************************************************)
(* POST-HOC TESTS: paired_t_test                                           *)
(***************************************************************************)

\* One statistic pingouin.pairwise_ttests reports for the row (A, B).
TStat(name, a, b) ==
    [stat |-> name, A |-> a, B |-> b, neg |-> FALSE, ndigits |-> None]

\* d = -d
Negated(st) == [st EXCEPT !.neg = ~st.neg]

\* every two of the levels, the earlier one first
Combinations(levels) ==
    LET n == Len(levels)
        step[m \in 0..(n * n)] ==
            IF m = 0 THEN <<>>
            ELSE LET i == ((m - 1) \div n) + 1
                     j == ((m - 1) % n) + 1
                     found == step[m - 1]
                 IN  IF i < j THEN Append(found, <<levels[i], levels[j]>>)
                     ELSE found
    IN  step[n * n]

\* pingouin.pairwise_ttests(df, dv=, within=, subject=, ...): one row for
\* every two levels of `within` that df carries, joined by `subject`.  Which
\* of the two levels a row reports as A is the routine's choice, as are the
\* p-values; k stands for both.
PairwiseTTests(data, dv, within, subject, k) ==
    LET pairs == Combinations(PdUnique(Column(data, within)))
    IN  [i \in 1..Len(pairs) |->
            LET swapped == (i + k) % 2 = 1
                a == IF swapped THEN pairs[i][2] ELSE pairs[i][1]
                b == IF swapped THEN pairs[i][1] ELSE pairs[i][2]
            IN  [A |-> a,
                 B |-> b,
                 dv |-> dv,
                 subject |-> subject,
                 T |-> TStat("T", a, b),
                 p_unc |-> RawP(k, i),
                 cohen |-> TStat("cohen", a, b)]]

\* With fewer than two levels there is nothing to compare: the routine then
\* either raises or reports no row, whichever the installed pingouin does.
PairwiseTTestsDegenerate(data, within) ==
    Len(PdUnique(Column(data, within))) < 2

\* "if row['A'] == baseline or row['B'] == baseline"
InvolvesBaseline(row, baseline) == row.A = baseline \/ row.B = baseline

\* c = row['A'] if row['A'] != baseline else row['B']
RowColumn(row, baseline) == IF row.A # baseline THEN row.A ELSE row.B

\* A slip that negates when the baseline is the second member of the row.
RowEntriesNegatingSecond(row, baseline, num) ==
    LET d == IF row.B = baseline THEN Negated(row.cohen) ELSE row.cohen
    IN  With(FloatOf(row.p_unc), LAMBDA p :
            <<CheckP(p), CheckP(ApplyBonferroni(p, num)),
              Rounded5(row.T), Rounded5(d)>>)

\* "read results", "cohen's d is asymmetric", "results": the four entries a
\* row that involves the baseline appends to results[c]
RowEntries(row, baseline, num) ==
    LET d == IF row.A = baseline THEN Negated(row.cohen) ELSE row.cohen
    IN  With(FloatOf(row.p_unc), LAMBDA p :
            <<CheckP(p), CheckP(ApplyBonferroni(p, num)),
              Rounded5(row.T), Rounded5(d)>>)

\* results[c] raises KeyError when c is not one of groups[:-1]
TTestKeyFails(stat, groups, baseline) ==
    \E i \in 1..Len(stat) :
        /\ InvolvesBaseline(stat[i], baseline)
        /\ ~InSeq(RowColumn(stat[i], baseline), SubSeq(groups, 1, Len(groups) - 1))

\* results[g] after "iterate over all rows"
TTestResultsOf(stat, baseline, num, g) ==
    LET acc[i \in 0..Len(stat)] ==
            IF i = 0 THEN <<>>
            ELSE LET before == acc[i - 1]
                 IN  IF InvolvesBaseline(stat[i], baseline)
                        /\ RowColumn(stat[i], baseline) = g
                     THEN before \o RowEntries(stat[i], baseline, num)
                     ELSE before
    IN  acc[Len(stat)]

\* pd.DataFrame(results, index=['p','bonf','T','d'], columns=groups[:-1]); it
\* raises when the list of a column is not as long as the index.
TTestMetricsTable(stat, groups, baseline) ==
    LET columns == SubSeq(groups, 1, Len(groups) - 1)
        data == [j \in 1..Len(columns) |->
                    TTestResultsOf(stat, baseline, Len(groups) - 1, columns[j])]
    IN  IF \E j \in 1..Len(columns) : Len(data[j]) # 4
        THEN NoTable
        ELSE [layout |-> "metrics",
              index |-> <<"p", "bonf", "T", "d">>,
              columns |-> columns,
              data |-> data]

\* df_res: the routine's table as it is without a baseline, else the table
\* built from its rows
TTestTable(stat, groups, baseline) ==
    IF baseline = None THEN [layout |-> "pairwise_ttests", rows |-> stat]
    ELSE IF TTestKeyFails(stat, groups, baseline) THEN NoTable
    ELSE TTestMetricsTable(stat, groups, baseline)

\* "collect group values to compare" and the special treatment of the baseline
TTestGroups(held, table, group_col, baseline) ==
    LET enumerated == OrderedValues(table, held, group_col)
    IN  [enumerated |-> enumerated,
         groups |-> BaselineLast(enumerated, baseline)]

\* the subject= argument of the call of pairwise_ttests
SubjectHandedOver(subject_col) == "Participant"

\* The end of paired_t_test: display, to_csv, and the value the call evaluates
\* to (the method has no return statement).
TTestReport(value_col, group_col, subject_col, condition, baseline, display_result, file, g, stat, raised, df_res) ==
    [op |-> "paired_t_test",
     value_col |-> value_col,
     group_col |-> group_col,
     subject_col |-> subject_col,
     subject |-> SubjectHandedOver(subject_col),
     condition |-> condition,
     baseline |-> baseline,
     enumerated |-> g.enumerated,
     groups |-> g.groups,
     stat |-> stat,
     status |-> IF raised THEN "test raised"
                ELSE IF df_res # NoTable THEN "ok"
                ELSE IF TTestKeyFails(stat, g.groups, baseline) THEN "key raised"
                ELSE "table raised",
     table |-> df_res,
     displayed |-> IF display_result THEN df_res ELSE NoTable,
     csv |-> IF file # None THEN df_res ELSE NoTable,
     returned |-> PyNone]

TTestFrom(data, value_col, group_col, subject_col, condition, baseline, display_result, file, k, raised, g) ==
    LET stat == IF raised THEN <<>>
                ELSE PairwiseTTests(data, value_col, group_col,
                                    SubjectHandedOver(subject_col), k)
    IN  TTestReport(value_col, group_col, subject_col, condition, baseline,
                    display_result, file, g, stat, raised,
                    IF raised THEN NoTable ELSE TTestTable(stat, g.groups, baseline))

\* paired_t_test from its first statement to its last, on the session
\* (held, table); k picks what the routine reports, lenient what it does
\* when the filtered rows carry fewer than two levels.
PairedTTest(held, table, value_col, group_col, subject_col, condition, baseline, display_result, file, k, lenient) ==
    LET data == GetCondition(held, condition)
    IN  TTestFrom(data, value_col, group_col, subject_col, condition, baseline,
                  display_result, file, k,
                  PairwiseTTestsDegenerate(data, group_col) /\ ~lenient,
                  TTestGroups(held, table, group_col, baseline))

(***************************************************************************)
(* OVERALL VARIANCE ANALYSIS: friedman_test                                *)
(***************************************************************************)

\* the line printed after the statistic: "if p > self.alpha"
Verdict(p, a, above, notAbove) == IF p.v > a THEN above ELSE notAbove

\* __get_condition_sets: one series of value_col per enumerated group
GetConditionSets(held, table, data, value_col, group_col, condition) ==
    LET narrowed == GetCondition(data, condition)
        groups == OrderedValues(table, held, group_col)
    IN  [i \in 1..Len(groups) |->
            Column(GetCondition(narrowed, TupleCond(group_col, groups[i])),
                   value_col)]

\* scipy.stats.friedmanchisquare raises on fewer than three samples and on
\* samples of different lengths.
FriedmanFails(sets) ==
    Len(sets) < 3 \/ \E i, j \in 1..Len(sets) : Len(sets[i]) # Len(sets[j])

\* friedman_test
FriedmanTest(held, table, a, value_col, group_col, condition, display_result, k) ==
    LET sets == GetConditionSets(held, table, GetCondition(held, condition),
                                 value_col, group_col, NoneCond)
        failed == FriedmanFails(sets)
        p == RawP(k, 3)
        result == [layout |-> "stat, p", of |-> sets, p |-> p]
    IN  [op |-> "friedman_test",
         value_col |-> value_col,
         group_col |-> group_col,
         condition |-> condition,
         baseline |-> None,
         enumerated |-> OrderedValues(table, held, group_col),
         status |-> IF failed THEN "test raised" ELSE "ok",
         displayed |-> IF ~failed /\ display_result
                       THEN [result |-> result,
                             verdict |-> Verdict(p, a, "No significant effects",
                                                 "Significant effects")]
                       ELSE NoTable,
         returned |-> IF failed THEN NoTable ELSE result]

(***************************************************************************)
(* CHECKS and anova_test                                                   *)
(***************************************************************************)

\* scipy.stats.shapiro raises on fewer than three values.
ShapiroFails(data) == Len(data) < 3

\* scipy.stats.bartlett raises on fewer than two samples.
BartlettFails(sets) == Len(sets) < 2

\* check_normal_distribution
CheckNormalDistribution(held, a, column, condition, display_result, k) ==
    LET data == Column(GetCondition(held, condition), column)
        failed == ShapiroFails(data)
        p == RawP(k, 3)
        result == [layout |-> "stat, p", of |-> data, p |-> p]
    IN  [op |-> "check_normal_distribution",
         column |-> column,
         condition |-> condition,
         status |-> IF failed THEN "test raised" ELSE "ok",
         displayed |-> IF ~failed /\ display_result
                       THEN [result |-> result,
                             verdict |-> Verdict(p, a, "Gaussian-like", "Non-Gaussian")]
                       ELSE NoTable,
         returned |-> IF failed THEN NoTable ELSE result]

\* check_homogene_variances
CheckHomogeneVariances(held, table, a, value_col, group_col, condition, display_result, k) ==
    LET sets == GetConditionSets(held, table, held, value_col, group_col, condition)
        failed == BartlettFails(sets)
        p == RawP(k, 3)
        result == [layout |-> "stat, p", of |-> sets, p |-> p]
    IN  [op |-> "check_homogene_variances",
         value_col |-> value_col,
         group_col |-> group_col,
         condition |-> condition,
         baseline |-> None,
         enumerated |-> OrderedValues(table, held, group_col),
         status |-> IF failed THEN "test raised" ELSE "ok",
         displayed |-> IF ~failed /\ display_result
                       THEN [result |-> result,
                             verdict |-> Verdict(p, a, "Homogene Variances",
                                                 "Non-Homogene Variances")]
                       ELSE NoTable,
         returned |-> IF failed THEN NoTable ELSE result]

\* check_sphericity; whether pingouin.sphericity raises on the filtered rows,
\* and what it finds, is the library's (raised, spher).
CheckSphericity(held, value_col, group_col, subject_col, condition, display_result, raised, spher) ==
    LET data == GetCondition(held, condition)
        result == [layout |-> "spher, W, chi2, dof, p", of |-> data,
                   dv |-> value_col, within |-> group_col,
                   subject |-> subject_col, spher |-> spher]
    IN  [op |-> "check_sphericity",
         value_col |-> value_col,
         group_col |-> group_col,
         subject_col |-> subject_col,
         condition |-> condition,
         status |-> IF raised THEN "test raised" ELSE "ok",
         displayed |-> IF ~raised /\ display_result
                       THEN [result |-> result,
                             verdict |-> IF spher THEN "Sphericity given"
                                         ELSE "No sphericity given"]
                       ELSE NoTable,
         returned |-> IF raised THEN NoTable ELSE result]

\* anova_test; whether pingouin.rm_anova raises is the library's (raised).
AnovaTest(held, value_col, group_col, subject_col, condition, display_result, raised) ==
    LET data == GetCondition(held, condition)
        summary == [layout |-> "rm_anova", of |-> data, dv |-> value_col,
                    within |-> group_col, subject |-> subject_col]
    IN  [op |-> "anova_test",
         value_col |-> value_col,
         group_col |-> group_col,
         subject_col |-> subject_col,
         condition |-> condition,
         status |-> IF raised THEN "test raised" ELSE "ok",
         displayed |-> IF ~raised /\ display_result THEN summary ELSE NoTable,
         returned |-> IF raised THEN NoTable ELSE summary]

(***************************************************************************)
(* The session: one DatasetEvaluation object and the calls made on it      *)
(***************************************************************************)

\* the alpha values a caller sets: 0.05 and 0.01
Alphas == {DefaultAlpha, PTwoStars}

GroupCols == {"size", "task"}

BaselinesOf(group_col) ==
    IF group_col = "size" THEN {None, "S", "M", "L", Foreign}
    ELSE {None, "t1", Foreign}

SessionConditions ==
    {FalseCond, NoneCond,
     TupleCond("task", "t1"),
     TupleCond("size", "S"),
     ListCond(<<TupleCond("task", "t1"), TupleCond("Participant", "p1")>>)}

\* (display_result, file) of a test call: shown, or written to a file
Outputs == {<<TRUE, None>>, <<FALSE, "result.csv">>}

\* how many different series of raw p-values the paired test may report
NumOutcomes == 2

IdleNumeric ==
    /\ pin = Pending
    /\ pout = Pending
    /\ pout2 = Pending

IdleFilter ==
    /\ fin = Pending
    /\ fout = Pending

\* DatasetEvaluation.__init__
InitSession ==
    /\ df \in InitialDatasets
    /\ alpha = DefaultAlpha
    /\ order_table = <<>>
    /\ call = NoCall

Init ==
    /\ InitSession
    /\ IdleNumeric
    /\ IdleFilter

\* The session is used by one caller, one call at a time: an operation starts
\* when the test call before it has returned.
Exclude ==
    /\ call = NoCall
    /\ \E condition \in ExcludeConditions : exclude(condition)
    /\ UNCHANGED <<numericVars, filterVars>>

AddMean ==
    /\ call = NoCall
    /\ add_mean(<<"score", "time">>, "mean")
    /\ UNCHANGED <<numericVars, filterVars>>

SaveOrder ==
    /\ call = NoCall
    /\ \E saved \in SavedOrders : save_order(saved[1], saved[2])
    /\ UNCHANGED <<numericVars, filterVars>>

SetAlpha ==
    /\ call = NoCall
    /\ \E a \in Alphas : set_alpha(a)
    /\ UNCHANGED <<numericVars, filterVars>>

Wilcoxon ==
    /\ call = NoCall
    /\ \E group_col \in GroupCols, condition \in SessionConditions,
          out \in Outputs, k \in 0..(NumOutcomes - 1) :
          \E baseline \in BaselinesOf(group_col) :
             /\ order_table' = TableAfter(order_table, group_col, baseline)
             /\ call' = WilcoxonTest(df, order_table, "score", group_col, condition,
                                     baseline, out[1], out[2], k)
    /\ UNCHANGED <<df, alpha, numericVars, filterVars>>

Friedman ==
    /\ call = NoCall
    /\ \E group_col \in GroupCols, condition \in SessionConditions,
          display_result \in BOOLEAN, k \in 0..(NumOutcomes - 1) :
             call' = FriedmanTest(df, order_table, alpha, "score", group_col,
                                  condition, display_result, k)
    /\ UNCHANGED <<df, alpha, order_table, numericVars, filterVars>>

\* (display_result, file, subject_col) of a paired_t_test call
PairedOutputs ==
    {<<TRUE, None, "Participant">>,
     <<FALSE, "result.csv", "Participant">>,
     <<TRUE, None, "task">>}

\* what the routine may do on the filtered rows: it has a choice only when
\* they carry fewer than two levels
LenientChoices(held, group_col, condition) ==
    IF PairwiseTTestsDegenerate(GetCondition(held, condition), group_col)
    THEN BOOLEAN
    ELSE {FALSE}

PairedT ==
    /\ call = NoCall
    /\ \E group_col \in GroupCols, condition \in SessionConditions,
          out \in PairedOutputs, k \in 0..(NumOutcomes - 1) :
          \E baseline \in BaselinesOf(group_col),
             lenient \in LenientChoices(df, group_col, condition) :
             /\ order_table' = TableAfter(order_table, group_col, baseline)
             /\ call' = PairedTTest(df, order_table, "score", group_col, out[3],
                                    condition, baseline, out[1], out[2], k, lenient)
    /\ UNCHANGED <<df, alpha, numericVars, filterVars>>

\* (display_result, raised, spher) of a call into pingouin: shown or not when
\* the routine succeeds, with either finding, and a call in which it raises
LibraryOutcomes ==
    {<<TRUE, FALSE, TRUE>>, <<FALSE, FALSE, FALSE>>, <<TRUE, TRUE, FALSE>>}

CheckNormal ==
    /\ call = NoCall
    /\ \E condition \in SessionConditions, display_result \in BOOLEAN,
          k \in 0..(NumOutcomes - 1) :
             call' = CheckNormalDistribution(df, alpha, "score", condition,
                                             display_result, k)
    /\ UNCHANGED <<df, alpha, order_table, numericVars, filterVars>>

CheckHomogene ==
    /\ call = NoCall
    /\ \E group_col \in GroupCols, condition \in SessionConditions,
          display_result \in BOOLEAN, k \in 0..(NumOutcomes - 1) :
             call' = CheckHomogeneVariances(df, order_table, alpha, "score", group_col,
                                            condition, display_result, k)
    /\ UNCHANGED <<df, alpha, order_table, numericVars, filterVars>>

CheckSpher ==
    /\ call = NoCall
    /\ \E group_col \in GroupCols, condition \in SessionConditions,
          out \in LibraryOutcomes :
             call' = CheckSphericity(df, "score", group_col, "Participant", condition,
                                     out[1], out[2], out[3])
    /\ UNCHANGED <<df, alpha, order_table, numericVars, filterVars>>

Anova ==
    /\ call = NoCall
    /\ \E group_col \in GroupCols, condition \in SessionConditions,
          out \in LibraryOutcomes :
             call' = AnovaTest(df, "score", group_col, "Participant", condition,
                               out[1], out[2])
    /\ UNCHANGED <<df, alpha, order_table, numericVars, filterVars>>

\* The test call returns (or its error reaches the caller).
Return ==
    /\ call # NoCall
    /\ call' = NoCall
    /\ UNCHANGED <<df, alpha, order_table, numericVars, filterVars>>

Next ==
    \/ Exclude
    \/ AddMean
    \/ SaveOrder
    \/ SetAlpha
    \/ Wilcoxon
    \/ Friedman
    \/ PairedT
    \/ CheckNormal
    \/ CheckHomogene
    \/ CheckSpher
    \/ Anova
    \/ Return

Spec == Init /\ [][Next]_vars

(***************************************************************************)
(* The numeric helpers on their own: __apply_bonferroni and __check_p      *)
(* applied to one input                                                    *)
(***************************************************************************)

\* p-values this far on either side of a threshold are tried, in units of 1e-7
EpsWindow == 2

\* multiples of 0.05 that are tried
CoarseSteps == 20

\* the largest family size that is tried
MaxFamily == 6

Thresholds == {0, PThreeStars, PTwoStars, POneStar, One}

\* values half way between two multiples of the unit they are rounded to,
\* whose double is above (0.0025, 0.000005, 0.0485), below (0.123455) or
\* exactly (0.0625, 0.015625) the decimal, and 0.0015, whose float triple
\* rounds up to 0.005 where the literal 0.0045 rounds down
TieValues == {25000, 50, 485000, 1234550, 625000, 156250, 15000}

Magnitudes ==
    {m \in {t + d : t \in Thresholds, d \in (-EpsWindow)..EpsWindow} : m >= 0}
        \cup {k * POneStar : k \in 0..CoarseSteps}
        \cup TieValues

PValues == Magnitudes \cup {-m : m \in Magnitudes}

\* A p-value reaches the annotator as a numpy.float64 from wilcoxon_test and
\* as a float from paired_t_test.
FloatOfKind(kind, v) == IF kind = "float64" THEN NpFloat(v) ELSE PyFloat(v)

NumericInputs ==
    {[fn |-> "check_p", p |-> FloatOfKind(kind, v)] :
         v \in PValues, kind \in {"float", "float64"}}
        \cup {[fn |-> "apply_bonferroni", p |-> FloatOfKind(kind, v), num |-> n] :
                 v \in {m \in Magnitudes : m <= One}, n \in 1..MaxFamily,
                 kind \in {"float", "float64"}}

IdleSession ==
    /\ df = <<>>
    /\ alpha = DefaultAlpha
    /\ order_table = <<>>
    /\ call = NoCall

InitNumeric ==
    /\ pin \in NumericInputs
    /\ pout = Pending
    /\ pout2 = Pending
    /\ IdleSession
    /\ IdleFilter

\* __check_p(p)
Annotate ==
    /\ pin.fn = "check_p"
    /\ pout = Pending
    /\ pout' = CheckP(pin.p)
    /\ UNCHANGED <<pin, pout2, sessionVars, filterVars>>

\* __check_p applied to the text it has returned
AnnotateAgain ==
    /\ pin.fn = "check_p"
    /\ pout # Pending
    /\ pout2 = Pending
    /\ pout2' = CheckP(pout)
    /\ UNCHANGED <<pin, pout, sessionVars, filterVars>>

\* __apply_bonferroni(p, num)
Correct ==
    /\ pin.fn = "apply_bonferroni"
    /\ pout = Pending
    /\ pout' = ApplyBonferroni(pin.p, pin.num)
    /\ UNCHANGED <<pin, pout2, sessionVars, filterVars>>

\* __check_p(bonf), as the result loops call it
AnnotateCorrected ==
    /\ pin.fn = "apply_bonferroni"
    /\ pout # Pending
    /\ pout2 = Pending
    /\ pout2' = CheckP(pout)
    /\ UNCHANGED <<pin, pout, sessionVars, filterVars>>

NextNumeric ==
    \/ Annotate
    \/ AnnotateAgain
    \/ Correct
    \/ AnnotateCorrected

SpecNumeric == InitNumeric /\ [][NextNumeric]_vars

(***************************************************************************)
(* The condition filter on its own: __get_condition of either class        *)
(* applied to one dataset and one condition                                *)
(***************************************************************************)

\* rows of the datasets that are filtered
MaxRows == 3

\* conditions in a list
MaxConds == 2

FilterCells == {<<s, t>> : s \in {"S", "M"}, t \in {"t1", "t2"}}

\* every dataset of at most MaxRows rows; id is the row's place in it
FilterDatasets ==
    UNION {{[i \in 1..n |-> [size |-> f[i][1], task |-> f[i][2], id |-> i]] :
               f \in [1..n -> FilterCells]} : n \in 0..MaxRows}

FilterTuples ==
    {TupleCond("size", v) : v \in {"S", "M", "L"}}
        \cup {TupleCond("task", v) : v \in {"t1", "t2"}}

FilterConditions ==
    {NoneCond, FalseCond} \cup FilterTuples
        \cup UNION {{ListCond(items) : items \in [1..n -> FilterTuples]} :
                       n \in 0..MaxConds}

Classes == {"DatasetEvaluation", "DatasetExploration"}

InitFilter ==
    /\ fin \in {[class |-> c, data |-> d, condition |-> cond] :
                   c \in Classes, d \in FilterDatasets, cond \in FilterConditions}
    /\ fout = Pending
    /\ IdleSession
    /\ IdleNumeric

\* DatasetEvaluation.__get_condition(data, condition)
FilterEvaluation ==
    /\ fin.class = "DatasetEvaluation"
    /\ fout = Pending
    /\ fout' = [rows |-> GetCondition(fin.data, fin.condition)]
    /\ UNCHANGED <<fin, sessionVars, numericVars>>

\* DatasetExploration.__get_condition(data, condition)
FilterExploration ==
    /\ fin.class = "DatasetExploration"
    /\ fout = Pending
    /\ fout' = [rows |-> ExplGetCondition(fin.data, fin.condition)]
    /\ UNCHANGED <<fin, sessionVars, numericVars>>

NextFilter ==
    \/ FilterEvaluation
    \/ FilterExploration

SpecFilter == InitFilter /\ [][NextFilter]_vars

(***************************************************************************)
(* Properties of the numeric helpers, under SpecNumeric                    *)
(***************************************************************************)

Corrected == pin # Pending /\ pin.fn = "apply_bonferroni" /\ pout # Pending

AnnotatedNumber == pin # Pending /\ pin.fn = "check_p" /\ pout # Pending

\* C3: the Bonferroni corrector returns min(raw_p * family_size, 1) for a raw
\* p in [0,1] and a family size >= 1: the product when it is at most 1 and 1
\* otherwise, never more than 1, and raw_p itself when the family size is 1.
BonferroniIsClampedProduct ==
    Corrected =>
        /\ pout.v <= One
        /\ pout.v <= pin.p.v * pin.num
        /\ pout.v = One \/ pout.v = pin.p.v * pin.num
        /\ pin.num = 1 => pout.v = pin.p.v

BonferroniClampsWitness ==
    /\ Corrected
    /\ pin.num > 1
    /\ pin.p.v < One
    /\ pin.p.v * pin.num > One
    /\ pout.v = One

InNoStarRange(a) == a > POneStar
InOneStarRange(a) == PTwoStars < a /\ a <= POneStar
InTwoStarRange(a) == PThreeStars < a /\ a <= PTwoStars
InThreeStarRange(a) == a <= PThreeStars

RangesHolding(a) ==
    {r \in 0..3 :
        \/ r = 0 /\ InNoStarRange(a)
        \/ r = 1 /\ InOneStarRange(a)
        \/ r = 2 /\ InTwoStarRange(a)
        \/ r = 3 /\ InThreeStarRange(a)}

\* C4: the annotator chooses the marker of a number p by |p| alone: none above
\* 0.05, one star in (0.01, 0.05], two in (0.001, 0.01], three up to 0.001;
\* exactly one of the four ranges holds of any p.
MarkerFollowsMagnitude ==
    AnnotatedNumber =>
        /\ RangesHolding(Abs(pin.p.v)) = {pout.stars}
        /\ pout.t = "str"

MarkerOfNegativeWitness ==
    /\ AnnotatedNumber
    /\ pin.p.v < 0
    /\ InOneStarRange(Abs(pin.p.v))
    /\ pout.stars = 1

\* C5 as stated: p = 0.05 gets no star, p = 0.0500001 gets no star, and
\* p = 0.0499999 gets one star.
BoundaryAsStated ==
    AnnotatedNumber =>
        /\ pin.p.v = POneStar => pout.stars = 0
        /\ pin.p.v = POneStar + 1 => pout.stars = 0
        /\ pin.p.v = POneStar - 1 => pout.stars = 1

\* C5, amended: p = 0.05 gets one star (the comparison is <=), p = 0.0500001
\* gets no star, and p = 0.0499999 gets one star.
BoundaryIsInclusive ==
    AnnotatedNumber =>
        /\ pin.p.v = POneStar => pout.stars = 1
        /\ pin.p.v = POneStar + 1 => pout.stars = 0
        /\ pin.p.v = POneStar - 1 => pout.stars = 1

BoundaryWitness ==
    /\ AnnotatedNumber
    /\ pin.p.v = POneStar
    /\ pout.stars = 1

\* C6: annotating the annotation of a number returns it unchanged.
AnnotatorIdempotent ==
    (pin # Pending /\ pin.fn = "check_p" /\ pout2 # Pending) => pout2 = pout

AnnotatedTwiceWitness ==
    /\ pin # Pending
    /\ pin.fn = "check_p"
    /\ pout2 # Pending
    /\ pout2.stars = 2
    /\ pout2 = pout

(***************************************************************************)
(* Properties of the condition filter, under SpecFilter                    *)
(***************************************************************************)

Filtered == fin # Pending /\ fout # Pending

\* __get_condition of the class fin names
FilterOf(data, condition) ==
    IF fin.class = "DatasetEvaluation" THEN GetCondition(data, condition)
    ELSE ExplGetCondition(data, condition)

\* C7: filtering with None, False or the empty list returns the dataset, the
\* same rows in the same order, in either class.
AbsentConditionIsIdentity ==
    (Filtered /\ fin.condition \in {NoneCond, FalseCond, ListCond(<<>>)})
        => fout.rows = fin.data

AbsentConditionWitness ==
    /\ Filtered
    /\ fin.class = "DatasetEvaluation"
    /\ fin.condition = FalseCond
    /\ Len(fin.data) = MaxRows
    /\ fout.rows = fin.data

IsTupleList(condition) == condition.tag = "list"

Satisfies(row, items) ==
    \A i \in 1..Len(items) : row[items[i].col] = items[i].val

\* C8: filtering with a list of (column, value) conditions returns the rows
\* that satisfy every condition, in their original order, and for a list of
\* two it equals filtering with one and then the other, in either order.
ListIsConjunction ==
    (Filtered /\ IsTupleList(fin.condition)) =>
        LET items == fin.condition.items
        IN  /\ fout.rows = SelectSeq(fin.data, LAMBDA row : Satisfies(row, items))
            /\ Len(items) = 2 =>
                  /\ fout.rows = FilterOf(FilterOf(fin.data, items[1]), items[2])
                  /\ fout.rows = FilterOf(FilterOf(fin.data, items[2]), items[1])

ListNarrowsWitness ==
    /\ Filtered
    /\ fin.class = "DatasetEvaluation"
    /\ IsTupleList(fin.condition)
    /\ Len(fin.condition.items) = 2
    /\ Len(fout.rows) >= 1
    /\ Len(fout.rows) < Len(GetCondition(fin.data, fin.condition.items[1]))
    /\ Len(fout.rows) < Len(GetCondition(fin.data, fin.condition.items[2]))

(***************************************************************************)
(* Properties of the session, under Spec                                   *)
(***************************************************************************)

Distinct(seq) == \A i, j \in 1..Len(seq) : seq[i] = seq[j] => i = j

IsPrefix(a, b) == Len(a) <= Len(b) /\ a = SubSeq(b, 1, Len(a))

Occurrences(x, seq) == Cardinality({i \in 1..Len(seq) : seq[i] = x})

WilcoxonCalled == call # NoCall /\ call.op = "wilcoxon_test"

\* C1: without a baseline, on n pairwise-distinct groups, the pairs the test
\* is run on are n*(n-1)/2: every two different groups once, in one
\* orientation, and no group with itself.  (The loop ends early when the
\* paired test raises; it has then run on a prefix of these pairs.)
AllPairsOnce ==
    (WilcoxonCalled /\ call.baseline = None /\ Distinct(call.enumerated)) =>
        LET gs == call.enumerated
            n == Len(gs)
        IN  /\ 2 * Len(call.pairs) = n * (n - 1)
            /\ \A i, j \in 1..n : i < j =>
                  Occurrences(<<gs[i], gs[j]>>, call.pairs)
                      + Occurrences(<<gs[j], gs[i]>>, call.pairs) = 1
            /\ \A i \in 1..Len(call.pairs) : call.pairs[i][1] # call.pairs[i][2]
            /\ IsPrefix(call.invoked, call.pairs)
            /\ call.status = "ok" => call.invoked = call.pairs

AllPairsOnceWitness ==
    /\ WilcoxonCalled
    /\ call.baseline = None
    /\ Distinct(call.enumerated)
    /\ Len(call.enumerated) = 3
    /\ call.status = "ok"
    /\ Len(call.invoked) = 3

\* C2: with a baseline that is one of n pairwise-distinct groups, the pairs
\* the test is run on are the n-1 pairs (g, baseline), g the groups other
\* than the baseline in their enumerated order.
EachGroupAgainstBaseline ==
    (/\ WilcoxonCalled
     /\ call.baseline # None
     /\ Distinct(call.enumerated)
     /\ InSeq(call.baseline, call.enumerated)) =>
        LET others == SelectSeq(call.enumerated, LAMBDA g : g # call.baseline)
        IN  /\ Len(call.pairs) = Len(call.enumerated) - 1
            /\ call.pairs = [i \in 1..Len(others) |-> <<others[i], call.baseline>>]
            /\ IsPrefix(call.invoked, call.pairs)
            /\ call.status = "ok" => call.invoked = call.pairs

EachGroupAgainstBaselineWitness ==
    /\ WilcoxonCalled
    /\ call.baseline = "S"
    /\ call.enumerated = <<"L", "S", "M">>
    /\ call.status = "ok"
    /\ call.invoked = << <<"L", "S">>, <<"M", "S">> >>

\* first-occurrence order: e lists every cell value once, a value that occurs
\* earlier in cells standing earlier in e
FirstAt(x, cells) == CHOOSE i \in 1..Len(cells) :
                        cells[i] = x /\ \A j \in 1..(i - 1) : cells[j] # x

IsFirstOccurrenceOrder(e, cells) ==
    /\ Distinct(e)
    /\ \A i \in 1..Len(e) : InSeq(e[i], cells)
    /\ \A i \in 1..Len(cells) : InSeq(cells[i], e)
    /\ \A i, j \in 1..Len(e) : i < j => FirstAt(e[i], cells) < FirstAt(e[j], cells)

\* the calls that enumerate the groups of a column
Enumerating ==
    /\ call # NoCall
    /\ call.op \in {"wilcoxon_test", "paired_t_test", "friedman_test",
                    "check_homogene_variances"}

\* C9: whatever was saved, excluded or added before, a test call enumerates
\* the groups of its column as the order saved for the column, verbatim, when
\* one is saved, and else as the distinct values of the column of the held
\* dataset in first-occurrence order; so calls between which neither changes
\* enumerate the same sequence.
EnumerationFollowsTableThenData ==
    Enumerating =>
        IF call.group_col \in DOMAIN order_table
        THEN call.enumerated = order_table[call.group_col]
        ELSE IsFirstOccurrenceOrder(call.enumerated, Column(df, call.group_col))

SavedOrderVerbatimWitness ==
    /\ Enumerating
    /\ "size" \in DOMAIN order_table
    /\ call.group_col = "size"
    /\ call.enumerated = <<"S", Foreign, "M">>
    /\ \A i \in 1..Len(df) : df[i].size # "S"

\* C10 as stated: a baseline that is not among the groups discards every
\* pair, runs no test and completes with an empty table.
ForeignBaselineAsStated ==
    (/\ WilcoxonCalled
     /\ call.baseline # None
     /\ ~InSeq(call.baseline, call.enumerated)) =>
        /\ call.pairs = <<>>
        /\ call.invoked = <<>>
        /\ call.status = "ok"
        /\ call.table # NoTable
        /\ call.table.columns = <<>>

\* C10, amended: a baseline that is not among the groups is appended to the
\* group list, so no pair against it is discarded: one pair (g, baseline)
\* for every listed group g is kept, and the test is run on the first.  When
\* no filtered row carries the baseline, that test raises on the empty series
\* and the call ends without a table.  The call completes with an empty table
\* exactly when the group list is empty.
ForeignBaselineIsCompared ==
    (/\ WilcoxonCalled
     /\ call.baseline # None
     /\ ~InSeq(call.baseline, call.enumerated)) =>
        LET gs == call.enumerated
            carried == InSeq(call.baseline,
                             Column(GetCondition(df, call.condition), call.group_col))
        IN  /\ call.pairs = [i \in 1..Len(gs) |-> <<gs[i], call.baseline>>]
            /\ IsPrefix(call.invoked, call.pairs)
            /\ gs # <<>> => call.invoked # <<>>
            /\ (gs # <<>> /\ ~carried) =>
                  /\ Len(call.invoked) = 1
                  /\ call.status = "test raised"
                  /\ call.table = NoTable
            /\ (call.status = "ok" /\ call.table.columns = <<>>) <=> gs = <<>>

ForeignBaselineWitness ==
    /\ WilcoxonCalled
    /\ call.baseline = Foreign
    /\ Len(call.enumerated) = 3
    /\ call.invoked = << <<call.enumerated[1], Foreign>> >>
    /\ call.status = "test raised"

\* the rows of the filtered dataset of the call that carry group g
RowsOfGroup(g) == SelectRows(GetCondition(df, call.condition), call.group_col, g)

HasEmptyGroup(pair) == RowsOfGroup(pair[1]) = <<>> \/ RowsOfGroup(pair[2]) = <<>>

\* C11: when a group of a pair the call compares has no row after filtering,
\* the paired test is invoked on the first such pair, every pair before it
\* having been tested, and its failure ends the call: no table is built, none
\* is displayed, none is written, and the pairs after it are not tested.
EmptyGroupFailurePropagates ==
    (WilcoxonCalled /\ \E i \in 1..Len(call.pairs) : HasEmptyGroup(call.pairs[i])) =>
        LET last == Len(call.invoked)
        IN  /\ last >= 1
            /\ IsPrefix(call.invoked, call.pairs)
            /\ HasEmptyGroup(call.invoked[last])
            /\ \A i \in 1..(last - 1) : ~HasEmptyGroup(call.invoked[i])
            /\ Len(call.multipliers) = last - 1
            /\ call.status = "test raised"
            /\ call.table = NoTable
            /\ call.displayed = NoTable
            /\ call.csv = NoTable

EmptyGroupAfterTestedPairWitness ==
    /\ WilcoxonCalled
    /\ call.status = "test raised"
    /\ Len(call.invoked) = 2
    /\ Len(call.pairs) = 3
    /\ ~HasEmptyGroup(call.invoked[1])
    /\ HasEmptyGroup(call.invoked[2])
    /\ call.csv = NoTable

\* a step in which a check or comparison call is made and runs to its end
CheckOrComparisonStep == call = NoCall /\ call' # NoCall

\* C12: a check or comparison call, whatever its condition and baseline,
\* leaves the held dataset, alpha and the saved orders as they were: the list
\* saved for the column is the same, element for element, after a call that
\* moved the baseline to the end of its group list.
ChecksAndComparisonsKeepSession ==
    [][CheckOrComparisonStep =>
          (df' = df /\ alpha' = alpha /\ order_table' = order_table)]_vars

BaselineMovedOrderKeptWitness ==
    /\ call # NoCall
    /\ call.op \in {"wilcoxon_test", "paired_t_test"}
    /\ call.group_col = "size"
    /\ call.baseline = "M"
    /\ call.groups = <<"L", "S", "M">>
    /\ "size" \in DOMAIN order_table
    /\ order_table["size"] = <<"M", "L", "S">>

ComparisonCalled == call # NoCall /\ call.op \in {"wilcoxon_test", "paired_t_test"}

\* C13: a comparison call that runs to its end evaluates to the table it
\* assembled, whether or not the table is displayed or written to a file.
ComparisonReturnsTable ==
    (ComparisonCalled /\ call.status = "ok") => call.returned = call.table

\* the series of value_col of group g in the filtered dataset of the call
SeriesOfGroup(g) == Column(RowsOfGroup(g), call.value_col)

\* the four values of the comparison of g against the baseline, for some
\* p-value the paired test reported, corrected for num comparisons
IsComparisonColumn(column, g, num) ==
    /\ Len(column) = 4
    /\ \E k \in 0..(NumOutcomes - 1), i \in 1..Len(PSample) :
          /\ column[1] = CheckP(RawP(k, i))
          /\ column[2] = CheckP(ApplyBonferroni(RawP(k, i), num))
    /\ column[3] = Stat("W-val", SeriesOfGroup(g), SeriesOfGroup(call.baseline))
    /\ column[4] = Rounded5(Stat("RBC", SeriesOfGroup(g), SeriesOfGroup(call.baseline)))

\* C14: the table of a wilcoxon_test call that runs to its end.  With a
\* baseline that is one of n pairwise-distinct groups it has the four rows
\* p, bonf, W, r and n-1 columns, the groups other than the baseline in their
\* order, each column holding the four values of that group's comparison
\* against the baseline.  Without a baseline it has one row for every tested
\* pair, in the order tested, which carries the two groups of the pair.
TableHasStatedLayout ==
    (WilcoxonCalled /\ call.status = "ok") =>
        IF call.baseline = None
        THEN /\ call.table.layout = "pairs"
             /\ Len(call.table.rows) = Len(call.invoked)
             /\ \A i \in 1..Len(call.invoked) :
                   /\ call.table.rows[i].A = call.invoked[i][1]
                   /\ call.table.rows[i].B = call.invoked[i][2]
        ELSE (Distinct(call.enumerated) /\ InSeq(call.baseline, call.enumerated)) =>
             LET others == SelectSeq(call.enumerated, LAMBDA g : g # call.baseline)
                 n == Len(call.enumerated)
             IN  /\ call.table.layout = "metrics"
                 /\ call.table.index = <<"p", "bonf", "W", "r">>
                 /\ Len(call.table.columns) = n - 1
                 /\ call.table.columns = others
                 /\ ~InSeq(call.baseline, call.table.columns)
                 /\ \A j \in 1..(n - 1) :
                       IsComparisonColumn(call.table.data[j], others[j], n - 1)

MetricsTableWitness ==
    /\ WilcoxonCalled
    /\ call.status = "ok"
    /\ call.baseline = "S"
    /\ call.enumerated = <<"L", "S", "M">>
    /\ call.table.columns = <<"L", "M">>
    /\ Len(call.table.data[2]) = 4

\* C15: in every wilcoxon_test call, whatever list of groups was saved or
\* found and whatever the baseline, the number handed to __apply_bonferroni
\* for each tested pair is the number of pairs the loop of the call does not
\* skip, which is the number of tests run when the call runs to its end.
MultiplierIsNumberOfTestedPairs ==
    WilcoxonCalled =>
        /\ \A i \in 1..Len(call.multipliers) : call.multipliers[i] = Len(call.pairs)
        /\ call.status # "test raised" =>
              /\ call.invoked = call.pairs
              /\ Len(call.multipliers) = Len(call.invoked)

BaselineMultiplierWitness ==
    /\ WilcoxonCalled
    /\ call.baseline # None
    /\ call.status = "ok"
    /\ Len(call.to_compare) = 3
    /\ Len(call.invoked) = 2
    /\ call.multipliers = <<2, 2>>

\* C16: with no order saved for the grouping column, the groups of a
\* comparison call are the values the column takes in the rows the condition
\* keeps, in the order of their first occurrence in those rows; a value that
\* occurs only in rows the condition removes is not among them.
GroupsFromFilteredRows ==
    (ComparisonCalled /\ call.group_col \notin DOMAIN order_table) =>
        IsFirstOccurrenceOrder(call.enumerated,
                               Column(GetCondition(df, call.condition), call.group_col))

PairedTCalled == call # NoCall /\ call.op = "paired_t_test"

\* x and y are the same effect size when d(B, A) = -d(A, B): they are the
\* same term, or one is the negated term of the swapped pair
SameEffect(x, y) ==
    \/ x = y
    \/ x = Negated([y EXCEPT !.A = y.B, !.B = y.A])

BaselineRows == {i \in 1..Len(call.stat) : InvolvesBaseline(call.stat[i], call.baseline)}

\* C17: in a paired_t_test call with a baseline that runs to its end, the
\* effect size in the column of group c is d(c, baseline) rounded to five
\* places, whether the routine reported the pair as (baseline, c) or as
\* (c, baseline), d being antisymmetric; and only the rows that involve the
\* baseline have entries in the table.
EffectSizeIsOfGroupAgainstBaseline ==
    (PairedTCalled /\ call.baseline # None /\ call.status = "ok") =>
        LET columns == call.table.columns
        IN  /\ \A j \in 1..Len(columns) :
                  /\ Len(call.table.data[j]) = 4
                  /\ SameEffect(call.table.data[j][4],
                                Rounded5(TStat("cohen", columns[j], call.baseline)))
                  /\ \E i \in BaselineRows :
                        /\ RowColumn(call.stat[i], call.baseline) = columns[j]
                        /\ call.table.data[j][3] = Rounded5(call.stat[i].T)
            /\ Distinct(columns) => Cardinality(BaselineRows) = Len(columns)

BothOrientationsWitness ==
    /\ PairedTCalled
    /\ call.baseline # None
    /\ call.status = "ok"
    /\ \E i, j, l \in 1..Len(call.stat) :
          /\ call.stat[i].A = call.baseline
          /\ call.stat[j].B = call.baseline
          /\ l \notin BaselineRows
    /\ \E j \in 1..Len(call.table.columns) : call.table.data[j][4].neg
    /\ \E j \in 1..Len(call.table.columns) : ~call.table.data[j][4].neg

\* C18: the subject column paired_t_test hands to the pairwise routine is the
\* subject_col argument of the call, whatever column the caller names.
SubjectIsCallersColumn ==
    PairedTCalled =>
        /\ call.subject = call.subject_col
        /\ \A i \in 1..Len(call.stat) : call.stat[i].subject = call.subject_col

(***************************************************************************)
(* The manipulation operations of both classes, on one held dataset        *)
(***************************************************************************)

\* Series.replace(dict): a cell that is a key of dict becomes dict[cell]
ReplacedColumn(data, column, dict) ==
    [i \in 1..Len(data) |->
        [data[i] EXCEPT ![column] = IF @ \in DOMAIN dict THEN dict[@] ELSE @]]

\* DatasetEvaluation.replace: self.df[column].replace(dict) builds a new
\* Series, which is dropped; the held dataset is what it was.
EvalReplace(held, column, dict) == held

\* DatasetExploration.replace: self.df[column].replace(dict, inplace=True)
\* replaces in the Series self.df[column].  With pandas' copy-on-write that
\* Series is detached from the frame and the held dataset is what it was;
\* without it the cells of the frame are replaced.
ExplReplace(held, column, dict, copy_on_write) ==
    IF copy_on_write THEN held ELSE ReplacedColumn(held, column, dict)

\* DatasetExploration.exclude
ExplExclude(held, condition) == ExcludeRows(held, condition)

\* (column, dict) of a replace call: one key, two keys that swap, a key no
\* cell equals, and a key of the task column
ReplaceArgs ==
    {<<"size", ("S" :> "M")>>,
     <<"size", ("S" :> "M" @@ "M" :> "S")>>,
     <<"size", ("L" :> "S")>>,
     <<"task", ("t1" :> "t2")>>}

ManipulationExcludes == {<<"size", "S">>, <<"size", "L">>, <<"task", "t1">>}

\* DatasetExploration.add_mean
expl_add_mean(columns, name) ==
    /\ df' = WithColumn(df, columns, name)
    /\ UNCHANGED <<alpha, order_table, call>>

\* DatasetExploration.save_order
expl_save_order(column, order) ==
    /\ order_table' =
          [c \in (DOMAIN order_table) \cup {column} |->
              IF c = column THEN order ELSE order_table[c]]
    /\ UNCHANGED <<df, alpha, call>>

ManipulationOrders == {<<"size", <<"M", "S">> >>, <<"task", <<"t2", "t1">> >>}

InitManipulation ==
    /\ df \in FilterDatasets
    /\ alpha = DefaultAlpha
    /\ order_table = <<>>
    /\ call = NoCall
    /\ fin \in {[class |-> c] : c \in Classes}
    /\ fout = Pending
    /\ IdleNumeric

ReplaceEvaluation ==
    /\ fin.class = "DatasetEvaluation"
    /\ call = NoCall
    /\ \E args \in ReplaceArgs :
          /\ df' = EvalReplace(df, args[1], args[2])
          /\ call' = [op |-> "replace", column |-> args[1], dict |-> args[2],
                      before |-> df]
    /\ UNCHANGED <<alpha, order_table, fin, fout, numericVars>>

ReplaceExploration ==
    /\ fin.class = "DatasetExploration"
    /\ call = NoCall
    /\ \E args \in ReplaceArgs, copy_on_write \in BOOLEAN :
          /\ df' = ExplReplace(df, args[1], args[2], copy_on_write)
          /\ call' = [op |-> "replace", column |-> args[1], dict |-> args[2],
                      before |-> df]
    /\ UNCHANGED <<alpha, order_table, fin, fout, numericVars>>

ExcludeEvaluation ==
    /\ fin.class = "DatasetEvaluation"
    /\ call = NoCall
    /\ \E condition \in ManipulationExcludes :
          /\ df' = ExcludeRows(df, condition)
          /\ call' = [op |-> "exclude", column |-> condition[1],
                      value |-> condition[2], before |-> df]
    /\ UNCHANGED <<alpha, order_table, fin, fout, numericVars>>

ExcludeExploration ==
    /\ fin.class = "DatasetExploration"
    /\ call = NoCall
    /\ \E condition \in ManipulationExcludes :
          /\ df' = ExplExclude(df, condition)
          /\ call' = [op |-> "exclude", column |-> condition[1],
                      value |-> condition[2], before |-> df]
    /\ UNCHANGED <<alpha, order_table, fin, fout, numericVars>>

AddMeanEvaluation ==
    /\ fin.class = "DatasetEvaluation"
    /\ call = NoCall
    /\ add_mean(<<"id">>, "mean")
    /\ UNCHANGED <<fin, fout, numericVars>>

AddMeanExploration ==
    /\ fin.class = "DatasetExploration"
    /\ call = NoCall
    /\ expl_add_mean(<<"id">>, "mean")
    /\ UNCHANGED <<fin, fout, numericVars>>

SaveOrderEvaluation ==
    /\ fin.class = "DatasetEvaluation"
    /\ call = NoCall
    /\ \E saved \in ManipulationOrders : save_order(saved[1], saved[2])
    /\ UNCHANGED <<fin, fout, numericVars>>

SaveOrderExploration ==
    /\ fin.class = "DatasetExploration"
    /\ call = NoCall
    /\ \E saved \in ManipulationOrders : expl_save_order(saved[1], saved[2])
    /\ UNCHANGED <<fin, fout, numericVars>>

\* A later call reads the held dataset: the values of the column.
LaterCall ==
    /\ call # NoCall
    /\ fout = Pending
    /\ fout' = [values |-> PossibleValues(df, call.column)]
    /\ UNCHANGED <<df, alpha, order_table, call, fin, numericVars>>

\* The caller goes on to the next manipulation.
NextManipulation ==
    /\ call # NoCall
    /\ fout # Pending
    /\ call' = NoCall
    /\ fout' = Pending
    /\ UNCHANGED <<df, alpha, order_table, fin, numericVars>>

NextOfManipulation ==
    \/ ReplaceEvaluation
    \/ ReplaceExploration
    \/ ExcludeEvaluation
    \/ ExcludeExploration
    \/ AddMeanEvaluation
    \/ AddMeanExploration
    \/ SaveOrderEvaluation
    \/ SaveOrderExploration
    \/ LaterCall
    \/ NextManipulation

SpecManipulation == InitManipulation /\ [][NextOfManipulation]_vars

\* the dataset the claim expects a manipulation to leave
ExpectedAfter ==
    IF call.op = "replace"
    THEN ReplacedColumn(call.before, call.column, call.dict)
    ELSE SelectSeq(call.before, LAMBDA row : row[call.column] # call.value)

Manipulated == call # NoCall /\ call.op \in {"replace", "exclude"}

\* C19: after replace(column, dict), in either class, every cell of the
\* column that is a key of dict holds the mapped value; after
\* exclude((column, value)) the held dataset is the former rows whose column
\* differs from value, in their order; and a later call reads that dataset.
ManipulationChangesDataset ==
    Manipulated =>
        /\ df = ExpectedAfter
        /\ fout # Pending =>
              fout.values = PdUnique(Column(ExpectedAfter, call.column))

====
